---- MODULE Spec2Model ----
(***************************************************************************)
(* Kaspy: a depth-limited, breadth-parameterised minimax move suggester    *)
(* built on python-chess (src/kaspy.py).                                   *)
(*                                                                         *)
(* The rules engine (chess.Board) is an external collaborator.  It is      *)
(* represented by a small fixed game graph, Board, that answers the same   *)
(* queries the code issues: legal_moves, push, turn, outcome(),            *)
(* is_variant_end(), is_stalemate(), pieces(), attacks(), king().          *)
(*                                                                         *)
(* The search is modelled as an explicit call stack of frames of suggest,  *)
(* eval and generate_candidates over a heap of board objects, so that      *)
(* aliasing, recursion parameters and exit paths are visible in the state. *)
(*                                                                         *)
(* Scores are Python floats in the code; here they are integers counted    *)
(* in tenths (1.0 -> 10, 0.1 -> 1, 0.2 -> 2, 1000.0 -> 10000).             *)
(***************************************************************************)
EXTENDS Integers, Sequences, FiniteSets, TLC

\* ------------------------------------------------------------------ bounds
MaxDepth == 3
MaxBreadth == 10

\* ------------------------------------------------------- the rules engine
WHITE == TRUE
BLACK == FALSE

\* self.piece_types: indices into a position's per-colour piece-count tuple
piece_types == <<"PAWN", "KING", "KNIGHT", "BISHOP", "ROOK", "QUEEN">>

\* self.piece_value, in tenths
piece_value ==
  [t \in {"PAWN", "KING", "KNIGHT", "BISHOP", "ROOK", "QUEEN"} |->
     CASE t = "PAWN" -> 10
       [] t = "KING" -> 25
       [] t = "KNIGHT" -> 30
       [] t = "BISHOP" -> 35
       [] t = "ROOK" -> 50
       [] t = "QUEEN" -> 90]

\* One position of the stub: side to move, legal moves in board.legal_moves
\* order as <<move, successor>> pairs, whether the side to move is in check,
\* an automatic draw (fivefold repetition / seventy-five moves), a variant
\* ending, and the features the evaluator reads for White (w*) and Black (b*).
Pos(turn, legal, check, autodraw, variant, wp, bp, wa, ba, wg, bg) ==
  [turn |-> turn, legal |-> legal, check |-> check, autodraw |-> autodraw,
   variant |-> variant, wp |-> wp, bp |-> bp, wa |-> wa, ba |-> ba,
   wg |-> wg, bg |-> bg]

Board ==
  << \*  1: White to move, mate in one available (b)
     Pos(WHITE, << <<"a", 2>>, <<"b", 3>>, <<"c", 4>> >>, FALSE, FALSE, "none",
         <<2,1,0,0,1,0>>, <<2,1,0,0,0,1>>, 14, 18, 2, 1),
     \*  2: Black to move, can repeat (a) or stalemate White (b)
     Pos(BLACK, << <<"a", 1>>, <<"b", 5>> >>, FALSE, FALSE, "none",
         <<2,1,0,0,1,0>>, <<2,1,0,0,0,1>>, 16, 18, 2, 1),
     \*  3: Black is checkmated
     Pos(BLACK, << >>, TRUE, FALSE, "none",
         <<2,1,0,0,1,0>>, <<2,1,0,0,0,1>>, 17, 12, 2, 0),
     \*  4: Black to move, same static score as 2
     Pos(BLACK, << <<"a", 6>>, <<"b", 7>>, <<"c", 5>> >>, FALSE, FALSE, "none",
         <<2,1,0,0,1,0>>, <<2,1,0,0,0,1>>, 15, 17, 2, 1),
     \*  5: White is stalemated
     Pos(WHITE, << >>, FALSE, FALSE, "none",
         <<0,1,0,0,0,0>>, <<0,1,0,0,0,1>>, 3, 20, 0, 0),
     \*  6: White is checkmated
     Pos(WHITE, << >>, TRUE, FALSE, "none",
         <<2,1,0,0,1,0>>, <<1,1,0,0,0,1>>, 9, 19, 1, 1),
     \*  7: White to move, automatic draw but moves exist
     Pos(WHITE, << <<"a", 8>>, <<"b", 9>> >>, FALSE, TRUE, "none",
         <<0,1,1,0,0,0>>, <<0,1,0,1,0,0>>, 11, 9, 0, 0),
     \*  8: Black to move
     Pos(BLACK, << <<"a", 7>>, <<"b", 10>>, <<"c", 11>> >>, FALSE, FALSE, "none",
         <<0,1,1,0,0,0>>, <<0,1,0,1,0,0>>, 10, 12, 0, 0),
     \*  9: variant ending, lost by the side to move (Black)
     Pos(BLACK, << >>, FALSE, FALSE, "loss",
         <<0,1,1,0,0,0>>, <<0,1,0,1,0,0>>, 8, 8, 0, 0),
     \* 10: White to move
     Pos(WHITE, << <<"a", 8>> >>, FALSE, FALSE, "none",
         <<0,1,1,0,0,0>>, <<0,1,0,1,0,0>>, 13, 9, 0, 0),
     \* 11: White to move, same static score as 10
     Pos(WHITE, << <<"a", 8>>, <<"b", 9>> >>, FALSE, FALSE, "none",
         <<0,1,1,0,0,0>>, <<0,1,0,1,0,0>>, 12, 8, 0, 0) >>

Positions == 1..Len(Board)

\* list(board.legal_moves)
LegalMoves(p) == [j \in 1..Len(Board[p].legal) |-> Board[p].legal[j][1]]

\* board.push(move): the position after move; a move that is not legal in p
\* leaves some position of the engine's choosing (push does not validate)
Push(p, m) ==
  LET js == {j \in 1..Len(Board[p].legal) : Board[p].legal[j][1] = m}
  IN IF js = {} THEN p ELSE Board[p].legal[CHOOSE j \in js : TRUE][2]

Turn(p) == Board[p].turn

IsVariantEnd(p) == Board[p].variant # "none"
IsCheckmate(p) == Board[p].check /\ Board[p].legal = << >>
IsStalemate(p) ==
  ~Board[p].check /\ ~IsVariantEnd(p) /\ Board[p].legal = << >>

\* board.outcome(): None, or an Outcome with a winner colour or winner None
NoOutcome == [present |-> FALSE, winner |-> "None"]
Won(color) == [present |-> TRUE, winner |-> IF color = WHITE THEN "WHITE" ELSE "BLACK"]
Drawn == [present |-> TRUE, winner |-> "None"]

Outcome(p) ==
  CASE Board[p].variant = "loss" -> Won(~Turn(p))
    [] Board[p].variant = "win" -> Won(Turn(p))
    [] Board[p].variant = "draw" -> Drawn
    [] IsCheckmate(p) -> Won(~Turn(p))
    [] Board[p].legal = << >> -> Drawn
    [] Board[p].autodraw -> Drawn
    [] OTHER -> NoOutcome

\* ------------------------------------------------------------ the evaluator
Count(p, color) == IF color = WHITE THEN Board[p].wp ELSE Board[p].bp

RECURSIVE MaterialSum(_, _, _)
MaterialSum(p, color, n) ==
  IF n = 0 THEN 0
  ELSE MaterialSum(p, color, n - 1) + Count(p, color)[n] * piece_value[piece_types[n]]

get_material_score(p, color) == MaterialSum(p, color, Len(piece_types))

\* sum of len(board.attacks(square)) over the colour's pieces, times 0.1
get_attacked_squares_score(p, color) ==
  (IF color = WHITE THEN Board[p].wa ELSE Board[p].ba) * 1

\* friendly pieces on the squares the colour's king attacks, times 0.2
get_king_safety_score(p, color) ==
  (IF color = WHITE THEN Board[p].wg ELSE Board[p].bg) * 2

\* the six-term sum of eval's depth == 0 branch
StaticScore(p) ==
    get_material_score(p, WHITE) - get_material_score(p, BLACK)
  + get_attacked_squares_score(p, WHITE) - get_attacked_squares_score(p, BLACK)
  + get_king_safety_score(p, WHITE) - get_king_safety_score(p, BLACK)

\* ------------------------------------------------------- values and frames
\* A Python value: its type, and the number, move, moves or message it holds
Value(type, num, move, moves, msg) ==
  [type |-> type, num |-> num, move |-> move, moves |-> moves, msg |-> msg]

Float(v) == Value("float", v, "", << >>, "")
None == Value("NoneType", 0, "", << >>, "")
Tuple(m, v) == Value("tuple", v, m, << >>, "")
Generator(ms) == Value("generator", 0, "", ms, "")
ValueError == Value("ValueError", 0, "", << >>, "arg is an empty sequence")
EvalsEmpty == Value("Exception", 0, "", << >>, "evals is empty")

\* eval's game-has-ended test: <<returns here, value>>
OutcomeIsNone(o) == ~o.present

\* faulty variant: only White's win is recognised
EvalEndedWhiteOnly(o) ==
  IF o.present /\ o.winner = "WHITE" THEN <<TRUE, 10000>> ELSE <<FALSE, 0>>

EvalEnded(o) ==
  CASE o.present /\ o.winner = "WHITE" -> <<TRUE, 10000>>
    [] o.present /\ o.winner = "BLACK" -> <<TRUE, -10000>>
    [] o.present /\ OutcomeIsNone(o) -> <<TRUE, 0>>
    [] OTHER -> <<FALSE, 0>>

\* faulty variant: the depth is not decremented
ChildDepthKept(depth, breadth) == IF breadth > 0 THEN depth ELSE 0

\* the budget eval hands to each child: depth-1 if breadth > 0 else 0
ChildDepth(depth, breadth) == IF breadth > 0 THEN depth - 1 ELSE 0

\* faulty variant: the breadth shrinks by one instead of halving
ChildBreadthMinusOne(breadth) == IF breadth > 0 THEN breadth - 1 ELSE 0

\* breadth // 2
ChildBreadth(breadth) == breadth \div 2

\* k = breadth or 1
CandidateK(breadth) == IF breadth # 0 THEN breadth ELSE 1

\* faulty variant: the move is pushed on the caller's board, no copy
MakeMoveInPlace(h, b, m) ==
  [heap |-> [h EXCEPT ![b] = Push(h[b], m)], board |-> b]

\* make_move: copy the board, push the move on the copy, yield the copy
MakeMove(h, b, m) ==
  [heap |-> Append(h, Push(h[b], m)), board |-> Len(h) + 1]

\* sorted(evals, key=lambda x: x[1], reverse=...): stable in both directions
RECURSIVE Insert(_, _, _)
Insert(s, x, reverse) ==
  IF s = << >> THEN <<x>>
  ELSE IF (IF reverse THEN Head(s)[2] >= x[2] ELSE Head(s)[2] <= x[2])
       THEN <<Head(s)>> \o Insert(Tail(s), x, reverse)
       ELSE <<x>> \o s

RECURSIVE SortedFrom(_, _, _)
SortedFrom(evals, n, reverse) ==
  IF n = 0 THEN << >>
  ELSE Insert(SortedFrom(evals, n - 1, reverse), evals[n], reverse)

\* faulty variant: the reverse flag is ignored
SortedAscending(evals, reverse) == SortedFrom(evals, Len(evals), FALSE)

Sorted(evals, reverse) == SortedFrom(evals, Len(evals), reverse)

\* the generator expression: the moves of the sorted pairs (k is not used)
Candidates(evals, reverse, k) ==
  LET s == Sorted(evals, reverse) IN [j \in 1..Len(s) |-> s[j][1]]

\* max / min over a non-empty sequence of keys: index of the first extremal one
FirstMax(keys) ==
  CHOOSE i \in 1..Len(keys) :
    /\ \A j \in 1..Len(keys) : keys[j] <= keys[i]
    /\ \A j \in 1..(i - 1) : keys[j] < keys[i]

FirstMin(keys) ==
  CHOOSE i \in 1..Len(keys) :
    /\ \A j \in 1..Len(keys) : keys[j] >= keys[i]
    /\ \A j \in 1..(i - 1) : keys[j] > keys[i]

\* suggest's final selection over evals, a list of (move, value) pairs
SuggestPick(evals, turn) ==
  LET keys == [j \in 1..Len(evals) |-> evals[j][2]]
      i == IF turn = WHITE THEN FirstMax(keys) ELSE FirstMin(keys)
  IN Tuple(evals[i][1], evals[i][2])

\* eval's final reduction over evals, a list of values
EvalPick(vals, turn) ==
  Float(vals[IF turn = WHITE THEN FirstMax(vals) ELSE FirstMin(vals)])

\* --------------------------------------------------------------- the state
VARIABLES
  entry,   \* the call under analysis: function, root position, depth, breadth
  heap,    \* the live chess.Board objects; heap[1] is the caller's board
  stack,   \* the call stack, innermost frame last
  status,  \* "running", "returned" or "raised"
  ret,     \* what the outermost call returned or raised
  done     \* the most recently completed call and what it returned

vars == <<entry, heap, stack, status, ret, done>>

\* A frame: fn is "suggest", "eval" or "gen" (generate_candidates); board
\* is a reference into heap and pos0 the position it held at entry; cands
\* is the move sequence being iterated, i the loop index, evals the list
\* built so far when it holds (move, value) pairs (suggest,
\* generate_candidates) and vals when it holds values (eval), calls the
\* number of calls made, base the heap size to fall back to when the
\* frame's board goes out of scope.
Frame(fn, board, pos0, depth, breadth, k, cands, pc, base) ==
  [fn |-> fn, pc |-> pc, board |-> board, pos0 |-> pos0, depth |-> depth,
   breadth |-> breadth, k |-> k, cands |-> cands, i |-> 1, evals |-> << >>,
   vals |-> << >>, calls |-> 0, base |-> base]

Top == stack[Len(stack)]
Running(fn, pc) == status = "running" /\ stack # << >> /\ Top.fn = fn /\ Top.pc = pc

NoCall ==
  [fn |-> "none", pos |-> 0, depth |-> 0, breadth |-> 0, k |-> 0,
   ret |-> None, calls |-> 0, cands |-> << >>, evals |-> << >>,
   vals |-> << >>]

Init ==
  /\ \E fn \in {"suggest", "eval", "gen"}, p \in Positions,
        d \in 0..MaxDepth, b \in 0..MaxBreadth :
       /\ fn = "gen" => d = 0
       /\ entry = [fn |-> fn, pos |-> p, depth |-> d, breadth |-> b]
       /\ stack = << Frame(fn, 1, p, d, b, b,
                           IF fn = "gen" THEN LegalMoves(p) ELSE << >>,
                           IF fn = "gen" THEN "loop" ELSE "start", 1) >>
       /\ heap = <<p>>
  /\ status = "running"
  /\ ret = None
  /\ done = NoCall

\* ----------------------------------------------------- calls and returns
\* the caller's frame once its callee has returned v
Resume(c, v) ==
  IF c.pc = "gen"
  THEN [c EXCEPT !.cands = v.moves, !.pc = "loop", !.i = 1]
  ELSE IF c.fn = "eval"
  THEN [c EXCEPT !.vals = Append(@, v.num), !.i = @ + 1]
  ELSE [c EXCEPT !.evals = Append(@, <<c.cands[c.i], v.num>>), !.i = @ + 1]

\* the top frame returns v
Return(v) ==
  LET f == Top
      rest == SubSeq(stack, 1, Len(stack) - 1)
  IN /\ done' = [fn |-> f.fn, pos |-> f.pos0, depth |-> f.depth,
                 breadth |-> f.breadth, k |-> f.k, ret |-> v,
                 calls |-> f.calls, cands |-> f.cands, evals |-> f.evals,
                 vals |-> f.vals]
     /\ heap' = SubSeq(heap, 1, f.base)
     /\ IF rest = << >>
        THEN stack' = << >> /\ status' = "returned" /\ ret' = v
        ELSE /\ stack' = [rest EXCEPT ![Len(rest)] = Resume(@, v)]
             /\ UNCHANGED <<status, ret>>

\* the top frame raises e; nothing catches it, every frame is unwound
Raise(e) ==
  /\ stack' = << >>
  /\ heap' = SubSeq(heap, 1, 1)
  /\ status' = "raised"
  /\ ret' = e
  /\ UNCHANGED done

\* the top frame calls generate_candidates(board, k)
CallGen(k) ==
  LET f == Top IN
  /\ stack' = Append([stack EXCEPT ![Len(stack)] =
                        [f EXCEPT !.pc = "gen", !.calls = @ + 1]],
                     Frame("gen", f.board, heap[f.board], 0, 0, k,
                           LegalMoves(heap[f.board]), "loop", Len(heap)))
  /\ UNCHANGED <<heap, status, ret, done>>

\* the top frame applies its current move to a copy and calls eval on it
CallEval(depth, breadth) ==
  LET f == Top
      mm == MakeMove(heap, f.board, f.cands[f.i])
  IN /\ heap' = mm.heap
     /\ stack' = Append([stack EXCEPT ![Len(stack)] = [f EXCEPT !.calls = @ + 1]],
                        Frame("eval", mm.board, mm.heap[mm.board], depth, breadth,
                              0, << >>, "start", Len(heap)))
     /\ UNCHANGED <<status, ret, done>>

\* ------------------------------------------------------------- Kaspy.suggest
\* lines 50-58: the two early returns, else start generating candidates
SuggestStart ==
  /\ Running("suggest", "start")
  /\ IF IsVariantEnd(heap[Top.board]) \/ IsStalemate(heap[Top.board])
     THEN Return(None)
     ELSE CallGen(Top.breadth)
  /\ UNCHANGED entry

\* lines 58-62: one iteration of the loop over the candidates
SuggestLoop ==
  /\ Running("suggest", "loop")
  /\ Top.i <= Len(Top.cands)
  /\ CallEval(Top.depth, Top.breadth)
  /\ UNCHANGED entry

\* lines 63-66: max / min over evals (raises ValueError when evals is empty)
SuggestReturn ==
  /\ Running("suggest", "loop")
  /\ Top.i > Len(Top.cands)
  /\ IF Top.evals = << >>
     THEN Raise(ValueError)
     ELSE Return(SuggestPick(Top.evals, Turn(heap[Top.board])))
  /\ UNCHANGED entry

\* ---------------------------------------------------------------- Kaspy.eval
\* lines 70-89: ended game, static score at depth 0, else start the search
EvalStart ==
  /\ Running("eval", "start")
  /\ LET e == EvalEnded(Outcome(heap[Top.board])) IN
     IF e[1] THEN Return(Float(e[2]))
     ELSE IF Top.depth = 0 THEN Return(Float(StaticScore(heap[Top.board])))
     ELSE CallGen(CandidateK(Top.breadth))
  /\ UNCHANGED entry

\* lines 89-93: one iteration of the loop over the candidates
EvalLoop ==
  /\ Running("eval", "loop")
  /\ Top.i <= Len(Top.cands)
  /\ CallEval(ChildDepth(Top.depth, Top.breadth), ChildBreadth(Top.breadth))
  /\ UNCHANGED entry

\* lines 94-99: fail on an empty list, else max / min
EvalReturn ==
  /\ Running("eval", "loop")
  /\ Top.i > Len(Top.cands)
  /\ IF Top.vals = << >>
     THEN Raise(EvalsEmpty)
     ELSE Return(EvalPick(Top.vals, Turn(heap[Top.board])))
  /\ UNCHANGED entry

\* ------------------------------------------------- Kaspy.generate_candidates
\* lines 108-112: score one legal move with eval at the default depth 0
GenLoop ==
  /\ Running("gen", "loop")
  /\ Top.i <= Len(Top.cands)
  /\ CallEval(0, 0)
  /\ UNCHANGED entry

\* lines 113-118: sort the pairs and hand back their moves
GenReturn ==
  /\ Running("gen", "loop")
  /\ Top.i > Len(Top.cands)
  /\ Return(Generator(Candidates(Top.evals, Turn(heap[Top.board]) = WHITE, Top.k)))
  /\ UNCHANGED entry

Next ==
  \/ SuggestStart
  \/ SuggestLoop
  \/ SuggestReturn
  \/ EvalStart
  \/ EvalLoop
  \/ EvalReturn
  \/ GenLoop
  \/ GenReturn

Spec == Init /\ [][Next]_vars

\* every call runs to completion: the interpreter always takes the next step
FairSpec == Spec /\ WF_vars(Next)

\* ------------------------------------------------------------ properties
Decisive(p) == Outcome(p).present /\ Outcome(p).winner # "None"
DrawnOutcome(p) == Outcome(p).present /\ Outcome(p).winner = "None"
Min(a, b) == IF a <= b THEN a ELSE b

\* eval(position) at the default depth 0, as a function of the position
Eval0(p) ==
  LET e == EvalEnded(Outcome(p)) IN IF e[1] THEN e[2] ELSE StaticScore(p)

\* the first pair of evals whose value is extremal for the side to move
FirstExtremal(evals, turn) ==
  CHOOSE i \in 1..Len(evals) :
    /\ \A j \in 1..Len(evals) :
         IF turn = WHITE THEN evals[j][2] <= evals[i][2]
         ELSE evals[j][2] >= evals[i][2]
    /\ \A j \in 1..(i - 1) : evals[j][2] # evals[i][2]

SuggestCompleted ==
  /\ done.fn = "suggest"
  /\ status = "returned"
  /\ LegalMoves(done.pos) # << >>
  /\ ~Outcome(done.pos).present

\* C1: on a root with a legal move that is not game-over, suggest returns
\* the move whose eval value is maximal (White to move) or minimal (Black
\* to move) among the candidates it evaluated, the first such in candidate
\* order.
C1_SuggestReturnsExtremalMove ==
  SuggestCompleted =>
    /\ ret.type = "Move"
    /\ ret.move = done.evals[FirstExtremal(done.evals, Turn(done.pos))][1]

\* What the code does instead: the result is the (move, value) pair whose
\* move is that first extremal candidate.
SuggestReturnsExtremalPair ==
  SuggestCompleted =>
    LET i == FirstExtremal(done.evals, Turn(done.pos)) IN
    /\ ret.type = "tuple"
    /\ <<ret.move, ret.num>> = done.evals[i]
    /\ \A j \in 1..Len(done.evals) : done.evals[j][1] = done.cands[j]

\* C2: suggest on a root whose side to move is checkmated returns the
\* "no move" result: it never raises and never returns a move.
C2_CheckmatedRootNoMove ==
  (entry.fn = "suggest" /\ Decisive(entry.pos) /\ IsCheckmate(entry.pos)) =>
    /\ status # "raised"
    /\ status = "returned" => ret.type = "NoneType"

\* C3: at the root, suggest evaluates only the first `breadth` candidates:
\* the number of root children passed to eval is min(breadth, number of
\* legal moves) and the returned move is one of those first candidates.
\* (Stated for breadth >= 1, where a truncated root still has a candidate.)
C3_RootTruncation ==
  LET n == Min(entry.breadth, Len(LegalMoves(entry.pos))) IN
  entry.breadth >= 1 =>
    /\ (stack # << >> /\ stack[1].fn = "suggest") => Len(stack[1].evals) <= n
    /\ (done.fn = "suggest" /\ status = "returned" /\ ret.type # "NoneType") =>
         /\ Len(done.evals) = n
         /\ \E j \in 1..n : done.cands[j] = ret.move

\* C4: generate_candidates(position, k) yields every legal move exactly
\* once, whatever k, ordered so that the depth-0 eval of the resulting
\* positions is non-increasing for White to move, non-decreasing for Black.
C4_CandidatesSortedPermutation ==
  done.fn = "gen" =>
    LET ms == done.ret.moves
        legal == LegalMoves(done.pos)
        score(j) == Eval0(Push(done.pos, ms[j]))
    IN /\ Len(ms) = Len(legal)
       /\ \A i \in 1..Len(legal) :
            Cardinality({j \in 1..Len(ms) : ms[j] = legal[i]}) = 1
       /\ \A j \in 1..(Len(ms) - 1) :
            IF Turn(done.pos) = WHITE THEN score(j) >= score(j + 1)
            ELSE score(j) <= score(j + 1)

\* generate_candidates has reordered three legal moves of a White position
\* although asked for one
C4_Witness ==
  /\ done.fn = "gen"
  /\ done.k = 1
  /\ Turn(done.pos) = WHITE
  /\ Len(done.ret.moves) = 3
  /\ done.ret.moves # LegalMoves(done.pos)

\* C5: on a position with a decisive outcome eval returns exactly +1000.0
\* (White won) or -1000.0 (Black won) at every depth and breadth, without
\* generating candidates or recursing.
C5_DecisiveEval ==
  (done.fn = "eval" /\ Decisive(done.pos)) =>
    /\ done.ret.type = "float"
    /\ done.ret.num = IF Outcome(done.pos).winner = "WHITE" THEN 10000 ELSE -10000
    /\ done.calls = 0

\* eval has returned -1000.0 for a position Black won, called with a
\* positive depth and breadth
C5_Witness ==
  /\ done.fn = "eval"
  /\ Outcome(done.pos) = Won(BLACK)
  /\ done.depth > 0
  /\ done.breadth > 0
  /\ done.ret.type = "float"
  /\ done.ret.num = -10000

\* C6: on a position whose outcome is present but has no winner, eval at
\* depth 0 returns 0.0 rather than the six-term sum.
C6_DrawScoresZero ==
  (done.fn = "eval" /\ DrawnOutcome(done.pos) /\ done.depth = 0) =>
    (done.ret.type = "float" /\ done.ret.num = 0)

\* C7: every recursive child call of eval gets breadth' = floor(breadth/2)
\* and depth' = depth-1 if breadth > 0 else 0; from eval(depth=3,
\* breadth=10) the children use breadth 5 and the grandchildren breadth 2.
C7_ChildBudget ==
  /\ \A j \in 2..Len(stack) :
       (stack[j].fn = "eval" /\ stack[j - 1].fn = "eval") =>
         /\ stack[j - 1].depth > 0
         /\ 2 * stack[j].breadth <= stack[j - 1].breadth
         /\ stack[j - 1].breadth <= 2 * stack[j].breadth + 1
         /\ stack[j].depth =
              IF stack[j - 1].breadth > 0 THEN stack[j - 1].depth - 1 ELSE 0
  /\ (entry.fn = "eval" /\ entry.depth = 3 /\ entry.breadth = 10) =>
       /\ (Len(stack) >= 2 /\ stack[2].fn = "eval") => stack[2].breadth = 5
       /\ (Len(stack) >= 3 /\ stack[2].fn = "eval" /\ stack[3].fn = "eval") =>
            stack[3].breadth = 2

\* a grandchild call of eval(depth=3, breadth=10) is on the stack
C7_Witness ==
  /\ entry.fn = "eval" /\ entry.depth = 3 /\ entry.breadth = 10
  /\ Len(stack) >= 3
  /\ stack[2].fn = "eval" /\ stack[3].fn = "eval"
  /\ stack[3].breadth = 2 /\ stack[3].depth = 1

\* C8: from a root with a legal move, suggest(depth >= 1, breadth >= 0)
\* completes and returns a move; no eval call on a position reachable from
\* the root raises the 'evals is empty' error.
C8_NoEmptyEvalsFailure ==
  (entry.fn = "suggest" /\ LegalMoves(entry.pos) # << >> /\ entry.depth >= 1) =>
    /\ status # "raised"
    /\ status = "returned" => ret.type # "NoneType"

\* the eval calls nested below the initial eval call
Nested ==
  Cardinality({j \in 2..Len(stack) :
                 stack[j].fn = "eval" /\ stack[j - 1].fn = "eval"})

ChainBounded ==
  /\ Nested <= entry.depth
  /\ \A j \in 2..Len(stack) :
       (stack[j].fn = "eval" /\ stack[j - 1].fn = "gen") =>
         /\ j = Len(stack)
         /\ stack[j].depth = 0
         /\ stack[j].calls = 0

\* C9: every call terminates (returns or fails), the chain of nested
\* recursive eval calls below the initial one is never longer than depth,
\* and the depth-0 eval calls made inside generate_candidates never recurse.
C9_BoundedTermination == []ChainBounded /\ <>(status # "running")

\* the chain of nested eval calls has reached the full depth of 3
C9_Witness ==
  /\ entry.depth = 3
  /\ Nested = 3
  /\ Top.fn = "eval" /\ Top.depth = 0 /\ Top.breadth > 0

\* C10: suggest, eval and generate_candidates never change a position they
\* are given: the root board and the board of every frame on the stack hold
\* the position they held at entry, on every exit path, and each child
\* works on a copy no frame below it refers to.
C10_PositionsUnchanged ==
  /\ heap[1] = entry.pos
  /\ \A j \in 1..Len(stack) : heap[stack[j].board] = stack[j].pos0
  /\ \A j \in 2..Len(stack) :
       stack[j].fn = "eval" =>
         \A i \in 1..(j - 1) : stack[i].board # stack[j].board

\* the fatal failure has unwound a search that had completed calls before
C10_Witness ==
  /\ status = "raised"
  /\ ret.type = "Exception"
  /\ done.fn # "none"
  /\ entry.fn = "suggest"
  /\ heap = <<entry.pos>>

====
